---- MODULE Spec2Model ----
(***************************************************************************)
(* Demand-paging simulator: page tables, the free-frame list and the FIFO  *)
(* / LRU replacement decision of Simulation::run, perform_memory_access    *)
(* and handle_page_fault, with the PageTable scans they call.              *)
(*                                                                         *)
(* One step of AccessStep is one iteration of the loop in Simulation::run: *)
(* the whole of perform_memory_access (with handle_page_fault) followed by *)
(* time++.  The trace is not stored: each iteration draws its virtual      *)
(* address from the bounded set VirtualAddresses, so every trace of at     *)
(* most MaxAccesses entries is explored.                                   *)
(***************************************************************************)
EXTENDS Integers, Sequences, FiniteSets

\* ---------------------------------------------------------------- bounds
\* Rows of the page table of process 1 (pages of its process image).
NumPages == 3
\* Largest value of flags.max_frames explored.  The flag is a positive frame
\* count, so the smallest value explored is 1.
MaxFramesFlag == 2
\* Longest trace explored (entries of virtual_addresses).
MaxAccesses == 4
\* Largest access count from which a fault percentage is reported.
MaxCount == 25
\* Size of the physical frame pool.  The program uses 512 (simulation.cpp
\* line 21); the model scales it down so that the pool can be exhausted
\* within MaxAccesses accesses.
NUM_FRAMES == 3
\* Bytes in every page of a process image; offsets 0..PageBytes are drawn,
\* so PageBytes itself is the one out-of-range offset.
PageBytes == 1

\* ------------------------------------------------------------- constants
\* <limits.h> INT_MAX, the initial "time" of both victim scans.
INT_MAX == 2147483647

\* Binary digits of the significand of a double, the type of
\* get_fault_percent's arithmetic.
MantissaBits == 53

\* Digit width used to form the exact product of a significand and 100.
LimbBits == 10

\* The simulation file declares two processes: process 1 with an image of
\* NumPages pages and process 2 with a smaller image of two pages.
Procs == {1, 2}
PageCount(p) == IF p = 1 THEN NumPages ELSE 2
PageIndexes(p) == 0..(PageCount(p) - 1)
Strategies == {"FIFO", "LRU"}

\* A trace entry: process id, page index (PageCount(p) is the one index
\* outside the table of p) and byte offset.
VirtualAddresses ==
    { va \in [process_id : Procs, page : 0..NumPages, offset : 0..PageBytes] :
        va.page <= PageCount(va.process_id) }

\* The value of virtual_address before the first loop iteration.
NoAddress == [process_id |-> 0, page |-> 0, offset |-> 0]

VARIABLES
    pc,                 \* position of run(): constructed, running, done,
                        \* exited_page, exited_offset, crashed
    flags,              \* FlagOptions: max_frames, strategy, verbose
    rows,               \* rows[p][i]: row i of process p's page table
    memory_accesses,    \* Process::memory_accesses per process
    process_page_faults,\* Process::page_faults per process
    page_faults,        \* Simulation::page_faults
    time,               \* Simulation::time, the logical clock
    free_frames,        \* Simulation::free_frames, a std::list<int>
    frames,             \* Simulation::frames.size()
    virtual_address,    \* loop variable of run(): the entry last processed
    branch,             \* branch that entry took in perform_memory_access
    page_index          \* local page_index of handle_page_fault: the victim

vars == << pc, flags, rows, memory_accesses, process_page_faults, page_faults,
           time, free_frames, frames, virtual_address, branch, page_index >>

\* ------------------------------------------------------------ page table
\* A freshly constructed row: not present, no frame, never loaded.
NewRow == [present |-> FALSE, frame |-> 0, loaded_at |-> -1,
           last_accessed_at |-> -1]

\* rows.size() of a table: its rows are indexed 0..size-1.
Size(table) == Cardinality(DOMAIN table)

RECURSIVE PresentScan(_, _, _)
PresentScan(table, i, present) ==
    IF i >= Size(table) THEN present
    ELSE PresentScan(table, i + 1,
                     IF table[i].present THEN present + 1 ELSE present)

\* PageTable::get_present_page_count: forward scan counting present rows.
get_present_page_count(table) == PresentScan(table, 0, 0)

RECURSIVE OldestScan(_, _, _, _)
OldestScan(table, i, index_of_oldest, t) ==
    IF i >= Size(table) THEN index_of_oldest
    ELSE IF table[i].loaded_at < t /\ table[i].present
         THEN OldestScan(table, i + 1, i, table[i].loaded_at)
         ELSE OldestScan(table, i + 1, index_of_oldest, t)

\* Faulty variant of LeastRecentScan: the present flag is not consulted.
RECURSIVE LeastRecentScan_any(_, _, _, _)
LeastRecentScan_any(table, i, index_of_last_used, t) ==
    IF i >= Size(table) THEN index_of_last_used
    ELSE IF table[i].last_accessed_at < t
         THEN LeastRecentScan_any(table, i + 1, i, table[i].last_accessed_at)
         ELSE LeastRecentScan_any(table, i + 1, index_of_last_used, t)

RECURSIVE LeastRecentScan(_, _, _, _)
LeastRecentScan(table, i, index_of_last_used, t) ==
    IF i >= Size(table) THEN index_of_last_used
    ELSE IF table[i].last_accessed_at < t /\ table[i].present
         THEN LeastRecentScan(table, i + 1, i, table[i].last_accessed_at)
         ELSE LeastRecentScan(table, i + 1, index_of_last_used, t)

\* Faulty variant of get_oldest_page: the scan compares last_accessed_at.
get_oldest_page_by_access(table) == LeastRecentScan(table, 0, 0, INT_MAX)

\* PageTable::get_oldest_page: forward scan, strict <, sentinel index 0.
get_oldest_page(table) == OldestScan(table, 0, 0, INT_MAX)

\* Faulty variant of get_least_recently_used_page: the scan compares loaded_at.
get_least_recently_used_page_by_load(table) ==
    OldestScan(table, 0, 0, INT_MAX)

\* PageTable::get_least_recently_used_page: same scan on last_accessed_at.
get_least_recently_used_page(table) == LeastRecentScan(table, 0, 0, INT_MAX)

\* --------------------------------------------------------------- process
\* Process::is_valid_page: index < page_table.rows.size() (index is a
\* size_t, so index >= 0 always holds).
is_valid_page(p, index) == index >= 0 /\ index < Size(rows[p])

\* Faulty variant of get_rss: one row too few is counted.
get_rss_short(p) == get_present_page_count(rows[p]) - 1

\* Process::get_rss.
get_rss(p) == get_present_page_count(rows[p])

\* ------------------------------------------------- double arithmetic
\* A positive double is [mant, exp]: MantissaBits binary digits, the first
\* of them 1, and the value 0.mant * 2^exp.  The values met here are far
\* from the exponent limits, so there is no overflow and no subnormal.
Zero == [mant |-> [i \in 1..MantissaBits |-> 0], exp |-> 0]

RECURSIVE Pow2(_)
Pow2(k) == IF k = 0 THEN 1 ELSE 2 * Pow2(k - 1)

\* Number of binary digits of q (0 for q = 0).
RECURSIVE BitLength(_)
BitLength(q) == IF q = 0 THEN 0 ELSE 1 + BitLength(q \div 2)

\* 2^k mod d by repeated squaring.
RECURSIVE PowMod(_, _)
PowMod(k, d) ==
    IF k = 0 THEN 1 % d
    ELSE LET h == PowMod(k \div 2, d)
         IN (((h * h) % d) * (IF k % 2 = 1 THEN 2 ELSE 1)) % d

\* Long division r / d (0 <= r < d): the remainder after k binary digits
\* and the k-th digit (k >= 1).
Remainder(r, d, k) == (r * PowMod(k, d)) % d

Digit(r, d, k) == IF 2 * Remainder(r, d, k - 1) >= d THEN 1 ELSE 0

\* Number of zero digits r / d starts with (0 < r < d).
RECURSIVE LeadingZeros(_, _)
LeadingZeros(r, d) == IF 2 * r >= d THEN 0 ELSE 1 + LeadingZeros(2 * r, d)

\* The next larger double.
NextUp(x) ==
    IF \A i \in 1..MantissaBits : x.mant[i] = 1
    THEN [mant |-> [i \in 1..MantissaBits |-> IF i = 1 THEN 1 ELSE 0],
          exp |-> x.exp + 1]
    ELSE LET last == CHOOSE i \in 1..MantissaBits :
                         /\ x.mant[i] = 0
                         /\ \A j \in (i + 1)..MantissaBits : x.mant[j] = 1
         IN [mant |-> [i \in 1..MantissaBits |->
                          IF i < last THEN x.mant[i]
                          ELSE IF i = last THEN 1 ELSE 0],
             exp |-> x.exp]

\* Round to nearest, ties to even: kept are the first MantissaBits digits,
\* guard the next one, sticky tells whether a nonzero digit follows it.
RoundNearestEven(kept, guard, sticky, exp) ==
    IF guard = 1 /\ (sticky \/ kept[MantissaBits] = 1)
    THEN NextUp([mant |-> kept, exp |-> exp])
    ELSE [mant |-> kept, exp |-> exp]

\* (double)n / (double)d for integers n >= 0, d > 0: the quotient rounded
\* to a double, and whether it needed no rounding.
Quotient(n, d) ==
    IF n = 0 THEN [value |-> Zero, exact |-> TRUE]
    ELSE LET q == n \div d
             r == n % d
             whole == BitLength(q)
             skip == IF q > 0 \/ r = 0 THEN 0 ELSE LeadingZeros(r, d)
             digit(i) == IF i <= whole
                         THEN (q \div Pow2(whole - i)) % 2
                         ELSE Digit(r, d, skip + i - whole)
             after == skip + MantissaBits - whole
         IN [value |-> RoundNearestEven(
                          [i \in 1..MantissaBits |-> digit(i)],
                          Digit(r, d, after + 1),
                          Remainder(r, d, after + 1) # 0,
                          whole - skip),
             exact |-> Remainder(r, d, after) = 0]

\* Value of the binary digits bits[lo..hi], most significant first.
RECURSIVE BitsValue(_, _, _)
BitsValue(bits, lo, hi) ==
    IF hi < lo THEN 0 ELSE 2 * BitsValue(bits, lo, hi - 1) + bits[hi]

\* limbs * factor in base 2^LimbBits, least significant limb last; the
\* carry out of the first limb is put in front.
RECURSIVE TimesSmall(_, _, _, _, _)
TimesSmall(limbs, factor, i, carry, acc) ==
    IF i = 0 THEN << carry >> \o acc
    ELSE LET v == limbs[i] * factor + carry
         IN TimesSmall(limbs, factor, i - 1, v \div Pow2(LimbBits),
                       << v % Pow2(LimbBits) >> \o acc)

\* x * 100.0: the exact product of the mantissa and 100, rounded to a
\* double.
TimesHundred(x) ==
    IF x = Zero THEN Zero
    ELSE LET count == (MantissaBits + LimbBits - 1) \div LimbBits
             width == count * LimbBits
             padded == [i \in 1..width |->
                          IF i <= width - MantissaBits THEN 0
                          ELSE x.mant[i - (width - MantissaBits)]]
             limbs == [k \in 1..count |->
                          BitsValue(padded, (k - 1) * LimbBits + 1,
                                    k * LimbBits)]
             product == TimesSmall(limbs, 100, count, 0, << >>)
             total == width + LimbBits
             full == [i \in 1..total |->
                        (product[((i - 1) \div LimbBits) + 1]
                           \div Pow2(LimbBits - 1 - ((i - 1) % LimbBits)))
                        % 2]
             first == CHOOSE i \in 1..total :
                          /\ full[i] = 1
                          /\ \A j \in 1..(i - 1) : full[j] = 0
             len == total - first + 1
             digit(i) == full[first - 1 + i]
         IN RoundNearestEven(
               [i \in 1..MantissaBits |-> digit(i)],
               digit(MantissaBits + 1),
               \E i \in (MantissaBits + 2)..len : digit(i) = 1,
               x.exp + (len - MantissaBits))

\* Faulty variant of get_fault_percent: the fraction is not scaled by 100.
get_fault_percent_fraction(p) ==
    IF memory_accesses[p] # 0
    THEN Quotient(process_page_faults[p], memory_accesses[p]).value
    ELSE Zero

\* Process::get_fault_percent:
\* ((double)page_faults / (double)memory_accesses) * 100.0, or 0.0.
get_fault_percent(p) ==
    IF memory_accesses[p] # 0
    THEN TimesHundred(
             Quotient(process_page_faults[p], memory_accesses[p]).value)
    ELSE Zero

\* Page::is_valid_offset: the offset lies inside the page's bytes.
is_valid_offset(offset) == offset < PageBytes

\* ------------------------------------------------------------ simulation
\* The initial free list built by run(): ids 0, 1, ... in ascending order.
InitialFreeFrames == [i \in 1..NUM_FRAMES |-> i - 1]

\* std::list<int>::remove(value): drops every element equal to value.
ListRemove(list, value) == SelectSeq(list, LAMBDA x : x # value)

\* Faulty variant of LoadedRow: the two stamps are left at their defaults.
LoadedRow_unstamped(frame_index) ==
    [present |-> TRUE, frame |-> frame_index, loaded_at |-> -1,
     last_accessed_at |-> -1]

\* The four assignments that make `page` resident in frame_index at `time`.
LoadedRow(frame_index) ==
    [present |-> TRUE, frame |-> frame_index, loaded_at |-> time,
     last_accessed_at |-> time]

\* Values front() of an empty std::list<int> may yield: any frame id, or an
\* id outside the pool.
GarbageFrames == {0, NUM_FRAMES}

\* After construction and read_simulation_file: tables all non-present,
\* counters zero, free list still empty.
Init ==
    /\ pc = "constructed"
    /\ flags \in [max_frames : 1..MaxFramesFlag, strategy : Strategies,
                  verbose : BOOLEAN]
    /\ rows = [p \in Procs |-> [i \in PageIndexes(p) |-> NewRow]]
    /\ memory_accesses = [p \in Procs |-> 0]
    /\ process_page_faults = [p \in Procs |-> 0]
    /\ page_faults = 0
    /\ time = 0
    /\ free_frames = << >>
    /\ frames = 0
    /\ virtual_address = NoAddress
    /\ branch = "none"
    /\ page_index = -1

\* run(), lines 20-23: fill the free list.
InitFreeFrames ==
    /\ pc = "constructed"
    /\ pc' = "running"
    /\ free_frames' = InitialFreeFrames
    /\ UNCHANGED << flags, rows, memory_accesses, process_page_faults,
                    page_faults, time, frames, virtual_address, branch,
                    page_index >>

\* The loop of run() takes its next entry: there is one, and the model's
\* trace bound is not reached.
NextEntry(va) ==
    /\ pc = "running"
    /\ time < MaxAccesses
    /\ virtual_address' = va
    /\ memory_accesses' =
           [memory_accesses EXCEPT ![va.process_id] = @ + 1]

\* Faulty variant of Epilogue: the clock ticks twice per access.
Epilogue_double_tick(va) ==
    IF flags.verbose /\ ~is_valid_offset(va.offset)
    THEN pc' = "exited_offset" /\ time' = time
    ELSE pc' = "running" /\ time' = time + 2

\* perform_memory_access lines 59-70 and run() line 27: under verbose an
\* invalid offset exits before time++; otherwise the clock ticks.
Epilogue(va) ==
    IF flags.verbose /\ ~is_valid_offset(va.offset)
    THEN pc' = "exited_offset" /\ time' = time
    ELSE pc' = "running" /\ time' = time + 1

\* Faulty variant of InvalidPage: the validity check runs before the
\* access is counted.
InvalidPage_uncounted(va) ==
    /\ pc = "running"
    /\ time < MaxAccesses
    /\ ~is_valid_page(va.process_id, va.page)
    /\ virtual_address' = va
    /\ pc' = "exited_page"
    /\ branch' = "invalid_page"
    /\ page_index' = -1
    /\ UNCHANGED << flags, rows, memory_accesses, process_page_faults,
                    page_faults, time, free_frames, frames >>

\* Faulty variant of InvalidPage: the segfault is reported but the call
\* returns instead of exiting.
InvalidPage_returns(va) ==
    /\ NextEntry(va)
    /\ ~is_valid_page(va.process_id, va.page)
    /\ pc' = "running"
    /\ time' = time + 1
    /\ branch' = "invalid_page"
    /\ page_index' = -1
    /\ UNCHANGED << flags, rows, process_page_faults, page_faults,
                    free_frames, frames >>

\* perform_memory_access lines 40-44: SEGFAULT - INVALID PAGE, exit(0).
InvalidPage(va) ==
    /\ NextEntry(va)
    /\ ~is_valid_page(va.process_id, va.page)
    /\ pc' = "exited_page"
    /\ branch' = "invalid_page"
    /\ page_index' = -1
    /\ UNCHANGED << flags, rows, process_page_faults, page_faults, time,
                    free_frames, frames >>

\* Faulty variant of Hit: the hit is also counted as a page fault.
Hit_counts_fault(va) ==
    /\ NextEntry(va)
    /\ is_valid_page(va.process_id, va.page)
    /\ rows[va.process_id][va.page].present
    /\ rows' = [rows EXCEPT
                  ![va.process_id][va.page].last_accessed_at = time]
    /\ page_faults' = page_faults + 1
    /\ process_page_faults' =
           [process_page_faults EXCEPT ![va.process_id] = @ + 1]
    /\ branch' = "hit"
    /\ page_index' = -1
    /\ Epilogue(va)
    /\ UNCHANGED << flags, free_frames, frames >>

\* Faulty variant of Hit: the hit stamps loaded_at instead.
Hit_stamps_load(va) ==
    /\ NextEntry(va)
    /\ is_valid_page(va.process_id, va.page)
    /\ rows[va.process_id][va.page].present
    /\ rows' = [rows EXCEPT ![va.process_id][va.page].loaded_at = time]
    /\ branch' = "hit"
    /\ page_index' = -1
    /\ Epilogue(va)
    /\ UNCHANGED << flags, process_page_faults, page_faults, free_frames,
                    frames >>

\* perform_memory_access lines 47-54: the page is in memory.
Hit(va) ==
    /\ NextEntry(va)
    /\ is_valid_page(va.process_id, va.page)
    /\ rows[va.process_id][va.page].present
    /\ rows' = [rows EXCEPT
                  ![va.process_id][va.page].last_accessed_at = time]
    /\ branch' = "hit"
    /\ page_index' = -1
    /\ Epilogue(va)
    /\ UNCHANGED << flags, process_page_faults, page_faults, free_frames,
                    frames >>

\* Faulty variant of CountFault: only the process's counter is raised.
CountFault_local(p) ==
    /\ page_faults' = page_faults
    /\ process_page_faults' = [process_page_faults EXCEPT ![p] = @ + 1]
    /\ frames' = frames + 1

\* handle_page_fault lines 75-76 and the push_back of each branch.
CountFault(p) ==
    /\ page_faults' = page_faults + 1
    /\ process_page_faults' = [process_page_faults EXCEPT ![p] = @ + 1]
    /\ frames' = frames + 1

\* handle_page_fault lines 81-93 with a free frame at the front of the list.
FaultFreeFrame(va) ==
    /\ NextEntry(va)
    /\ is_valid_page(va.process_id, va.page)
    /\ ~rows[va.process_id][va.page].present
    /\ get_rss(va.process_id) < flags.max_frames
    /\ free_frames # << >>
    /\ CountFault(va.process_id)
    /\ LET frame_index == Head(free_frames) IN
         /\ free_frames' = ListRemove(free_frames, frame_index)
         /\ rows' = [rows EXCEPT
                       ![va.process_id][va.page] = LoadedRow(frame_index)]
    /\ branch' = "free_frame"
    /\ page_index' = -1
    /\ Epilogue(va)
    /\ UNCHANGED flags

\* handle_page_fault lines 81-93 with the free list empty: front() of an
\* empty std::list is undefined; the build either aborts or yields some
\* int, and remove() on the empty list does nothing.
FaultNoFreeFrame(va) ==
    /\ NextEntry(va)
    /\ is_valid_page(va.process_id, va.page)
    /\ ~rows[va.process_id][va.page].present
    /\ get_rss(va.process_id) < flags.max_frames
    /\ free_frames = << >>
    /\ page_faults' = page_faults + 1
    /\ process_page_faults' =
           [process_page_faults EXCEPT ![va.process_id] = @ + 1]
    /\ branch' = "no_free_frame"
    /\ page_index' = -1
    /\ \/ /\ pc' = "crashed"
          /\ UNCHANGED << rows, free_frames, frames, time >>
       \/ \E frame_index \in GarbageFrames :
             /\ free_frames' = ListRemove(free_frames, frame_index)
             /\ frames' = frames + 1
             /\ rows' = [rows EXCEPT
                   ![va.process_id][va.page] = LoadedRow(frame_index)]
             /\ Epilogue(va)
    /\ UNCHANGED flags

\* The victim scan chosen by flags.strategy (lines 100 and 113).
select_victim(table) ==
    IF flags.strategy = "FIFO" THEN get_oldest_page(table)
    ELSE get_least_recently_used_page(table)

\* Faulty variant of FaultEvict: the victim keeps present == true.
FaultEvict_keeps_victim(va) ==
    /\ NextEntry(va)
    /\ is_valid_page(va.process_id, va.page)
    /\ ~rows[va.process_id][va.page].present
    /\ ~(get_rss(va.process_id) < flags.max_frames)
    /\ CountFault(va.process_id)
    /\ LET table == rows[va.process_id]
           victim == select_victim(table)
           frame_index == table[victim].frame
       IN /\ page_index' = victim
          /\ rows' = [rows EXCEPT
                        ![va.process_id][va.page] = LoadedRow(frame_index)]
    /\ branch' = "evict"
    /\ Epilogue(va)
    /\ UNCHANGED << flags, free_frames >>

\* Faulty variant of FaultEvict: the victim is taken from the first
\* process of the map instead of the faulting one.
FaultEvict_first_process(va) ==
    /\ NextEntry(va)
    /\ is_valid_page(va.process_id, va.page)
    /\ ~rows[va.process_id][va.page].present
    /\ ~(get_rss(va.process_id) < flags.max_frames)
    /\ CountFault(va.process_id)
    /\ LET victim == select_victim(rows[1])
           cleared == [rows EXCEPT ![1][victim].present = FALSE]
           frame_index == cleared[1][victim].frame
       IN /\ page_index' = victim
          /\ rows' = [cleared EXCEPT
                        ![va.process_id][va.page] = LoadedRow(frame_index)]
    /\ branch' = "evict"
    /\ Epilogue(va)
    /\ UNCHANGED << flags, free_frames >>

\* handle_page_fault lines 96-123: the process holds max_frames frames.
\* The victim row is cleared first, then the faulting row is written.
FaultEvict(va) ==
    /\ NextEntry(va)
    /\ is_valid_page(va.process_id, va.page)
    /\ ~rows[va.process_id][va.page].present
    /\ ~(get_rss(va.process_id) < flags.max_frames)
    /\ CountFault(va.process_id)
    /\ LET table == rows[va.process_id]
           victim == select_victim(table)
           cleared == [table EXCEPT ![victim].present = FALSE]
           frame_index == cleared[victim].frame
       IN /\ page_index' = victim
          /\ rows' = [rows EXCEPT ![va.process_id] =
                        [cleared EXCEPT ![va.page] = LoadedRow(frame_index)]]
    /\ branch' = "evict"
    /\ Epilogue(va)
    /\ UNCHANGED << flags, free_frames >>

\* One iteration of the loop in run().
AccessStep ==
    \E va \in VirtualAddresses :
        \/ InvalidPage(va)
        \/ Hit(va)
        \/ FaultFreeFrame(va)
        \/ FaultNoFreeFrame(va)
        \/ FaultEvict(va)

\* run() line 30: the trace is exhausted, print_summary reports.
Finish ==
    /\ pc = "running"
    /\ pc' = "done"
    /\ UNCHANGED << flags, rows, memory_accesses, process_page_faults,
                    page_faults, time, free_frames, frames, virtual_address,
                    branch, page_index >>

Next == InitFreeFrames \/ AccessStep \/ Finish

Spec == Init /\ [][Next]_vars

\* ======================================================== properties
\* Page indexes of process p whose row is present.
Resident(p) == { i \in DOMAIN rows[p] : rows[p][i].present }

\* Sum over all processes of present_count().
TotalPresent == get_rss(1) + get_rss(2)

\* The (process, page) pairs whose row is present.
ResidentPairs == { pp \in Procs \X (0..NumPages) :
                     pp[2] \in DOMAIN rows[pp[1]] /\ rows[pp[1]][pp[2]].present }

\* Elements of the free list.
FreeSet == { free_frames[k] : k \in DOMAIN free_frames }

\* The step processes one trace entry (one call of perform_memory_access).
AccessTaken == memory_accesses' # memory_accesses

\* The step is an eviction fault.
EvictionTaken == AccessTaken /\ branch' = "evict"

C2_FrameAccounting ==
    pc # "constructed" =>
        /\ TotalPresent + Len(free_frames) = NUM_FRAMES
        /\ \A pp \in ResidentPairs : rows[pp[1]][pp[2]].frame \notin FreeSet

\* C3: no two distinct present rows, of one process or of two, hold the
\* same frame.
C3_FrameUniqueness ==
    \A a \in ResidentPairs : \A b \in ResidentPairs :
        a # b => rows[a[1]][a[2]].frame # rows[b[1]][b[2]].frame

\* C4: a process that can fault under its budget always finds the free list
\* non-empty, the fault never runs with an empty list, and the total number
\* of present rows never exceeds NUM_FRAMES.
C4_NoOutOfFrames ==
    /\ branch # "no_free_frame"
    /\ TotalPresent <= NUM_FRAMES
    /\ pc = "running" =>
         \A p \in Procs :
            (get_rss(p) < flags.max_frames /\ Resident(p) # DOMAIN rows[p])
               => free_frames # << >>

\* C5: under FIFO every eviction clears a row that was present, whose
\* loaded_at is minimal among the present rows of the faulting process, the
\* lowest index winning a tie.
C5_FifoVictim ==
    [][ (EvictionTaken /\ flags.strategy = "FIFO") =>
          LET p == virtual_address'.process_id
              v == page_index'
          IN /\ v \in Resident(p)
             /\ ~rows'[p][v].present
             /\ \A j \in Resident(p) :
                   \/ rows[p][v].loaded_at < rows[p][j].loaded_at
                   \/ rows[p][v].loaded_at = rows[p][j].loaded_at /\ v <= j
      ]_vars

\* C5 witness: a FIFO eviction among two resident pages whose victim is not
\* index 0 and was accessed after the page that stays resident.
C5_Witness ==
    /\ branch = "evict"
    /\ flags.strategy = "FIFO"
    /\ flags.max_frames = 2
    /\ page_index > 0
    /\ \E j \in Resident(virtual_address.process_id) :
          /\ j # virtual_address.page
          /\ rows[virtual_address.process_id][j].last_accessed_at
               < rows[virtual_address.process_id][page_index].last_accessed_at

\* The trace of process 1 began 0, 1, 0, 2 (as read back from the stamps
\* those four accesses leave) under a budget of two frames.
Trace0102 ==
    /\ flags.max_frames = 2
    /\ time = 4
    /\ memory_accesses[1] = 4
    /\ rows[1][0].loaded_at = 0 /\ rows[1][0].last_accessed_at = 2
    /\ rows[1][1].loaded_at = 1 /\ rows[1][1].last_accessed_at = 1
    /\ rows[1][2].loaded_at = 3

\* C6: under LRU every eviction clears a row that was present, whose
\* last_accessed_at is minimal among the present rows of the faulting
\* process, the lowest index winning a tie; and with two frames the
\* accesses 0, 1, 0, 2 leave exactly pages 0 and 2 resident.
C6_LruVictim ==
    /\ [][ (EvictionTaken /\ flags.strategy = "LRU") =>
             LET p == virtual_address'.process_id
                 v == page_index'
             IN /\ v \in Resident(p)
                /\ ~rows'[p][v].present
                /\ \A j \in Resident(p) :
                      \/ rows[p][v].last_accessed_at
                           < rows[p][j].last_accessed_at
                      \/ /\ rows[p][v].last_accessed_at
                              = rows[p][j].last_accessed_at
                         /\ v <= j
         ]_vars
    /\ []((flags.strategy = "LRU" /\ Trace0102) => Resident(1) = {0, 2})

\* C6 witness: the accesses 0, 1, 0, 2 under LRU with two frames, ending in
\* the eviction of page 1, which was loaded after page 0.
C6_Witness ==
    /\ flags.strategy = "LRU"
    /\ Trace0102
    /\ branch = "evict"
    /\ page_index = 1

\* C7: every row, never loaded, resident or evicted, has
\* loaded_at <= last_accessed_at.
C7_LoadedBeforeAccessed ==
    \A p \in Procs : \A i \in DOMAIN rows[p] :
        rows[p][i].loaded_at <= rows[p][i].last_accessed_at

\* C7 witness: one process holds a never-loaded row, a resident row that
\* was hit after its load, and an evicted row.
C7_Witness ==
    \E p \in Procs : \E i, j, k \in DOMAIN rows[p] :
        /\ rows[p][i] = NewRow
        /\ rows[p][j].present
        /\ rows[p][j].loaded_at < rows[p][j].last_accessed_at
        /\ ~rows[p][k].present /\ rows[p][k].loaded_at >= 0

\* C8: an access with a page index outside the table exits at once, having
\* changed nothing but the access counter, and after that exit nothing
\* changes any more.
C8_InvalidPageHalts ==
    [][ /\ (AccessTaken /\ ~is_valid_page(virtual_address'.process_id,
                                          virtual_address'.page))
            => /\ pc' = "exited_page"
               /\ UNCHANGED << rows, free_frames, frames, page_faults,
                               process_page_faults, time >>
        /\ pc = "exited_page" => UNCHANGED vars
      ]_vars

\* C8 witness: the run exited on an invalid page index after it had
\* processed accesses that faulted.
C8_Witness ==
    /\ pc = "exited_page"
    /\ time >= 2
    /\ page_faults >= 1
    /\ ~is_valid_page(virtual_address.process_id, virtual_address.page)

\* C9: an access to a valid page with an out-of-range offset ends the run
\* at that access, whatever flags.verbose is.
C9_InvalidOffsetHalts ==
    [][ (/\ AccessTaken
         /\ is_valid_page(virtual_address'.process_id, virtual_address'.page)
         /\ ~is_valid_offset(virtual_address'.offset))
        => pc' \notin {"running", "done"}
      ]_vars

\* C10: an access of process P leaves the rows and both counters of every
\* other process unchanged.
C10_OtherProcessesUntouched ==
    [][ AccessTaken =>
          \A q \in Procs \ {virtual_address'.process_id} :
             /\ rows'[q] = rows[q]
             /\ memory_accesses'[q] = memory_accesses[q]
             /\ process_page_faults'[q] = process_page_faults[q]
      ]_vars

\* C10 witness: an eviction fault of one process while the other process
\* holds resident pages.
C10_Witness ==
    /\ branch = "evict"
    /\ \E q \in Procs \ {virtual_address.process_id} : Resident(q) # {}

\* C11: with max_frames == 1 a run does not depend on the strategy.  The
\* strategy is consulted only by an eviction, and there both scans return
\* the same row, the single resident one; the eviction clears it, gives its
\* frame to the faulting page and leaves the free list alone, so the FIFO
\* run and the LRU run of a trace move through the same page tables, free
\* lists and counters.  An access to a page other than the process's
\* resident one faults, as does its first access, so an alternating trace
\* such as 0, 1, 0, 1 faults on every access.
C11_OneFrameStrategiesAgree ==
    [][ (flags.max_frames = 1 /\ AccessTaken) =>
          LET p == virtual_address'.process_id
              page == virtual_address'.page
              fifo == get_oldest_page(rows[p])
              lru == get_least_recently_used_page(rows[p])
          IN /\ branch' = "evict" =>
                  /\ fifo = lru
                  /\ page_index' = fifo
                  /\ Resident(p) = {fifo}
                  /\ { i \in DOMAIN rows[p] : rows'[p][i].present } = {page}
                  /\ rows'[p][page].frame = rows[p][fifo].frame
                  /\ free_frames' = free_frames
             /\ ( /\ is_valid_page(p, page)
                  /\ \/ memory_accesses[p] = 0
                     \/ /\ virtual_address.process_id = p
                        /\ virtual_address.page # page )
                  => /\ process_page_faults'[p] = process_page_faults[p] + 1
                     /\ page_faults' = page_faults + 1
      ]_vars

\* C11 witness: the single-process trace 0, 1, 0, 1 under LRU with one
\* frame: four accesses, four faults, page 1 resident in the frame that
\* pages 0 and 1 took turns in.
C11_Witness ==
    /\ flags.max_frames = 1
    /\ flags.strategy = "LRU"
    /\ time = 4
    /\ memory_accesses[1] = 4
    /\ process_page_faults[1] = 4
    /\ page_faults = 4
    /\ rows[1][0].loaded_at = 2 /\ rows[1][0].last_accessed_at = 2
    /\ rows[1][1].loaded_at = 3 /\ rows[1][1].last_accessed_at = 3
    /\ rows[1][2] = NewRow
    /\ Resident(1) = {1}
    /\ rows[1][1].frame = rows[1][0].frame
    /\ Len(free_frames) = NUM_FRAMES - 1

\* Sum over all processes of memory_accesses.
TotalAccesses == memory_accesses[1] + memory_accesses[2]

\* The step processes an entry whose page index is valid and whose row is
\* present before the step (a hit), resp. not present (a miss).
HitTaken ==
    /\ AccessTaken
    /\ is_valid_page(virtual_address'.process_id, virtual_address'.page)
    /\ rows[virtual_address'.process_id][virtual_address'.page].present

MissTaken ==
    /\ AccessTaken
    /\ is_valid_page(virtual_address'.process_id, virtual_address'.page)
    /\ ~rows[virtual_address'.process_id][virtual_address'.page].present

\* C13: the access that exits on an invalid page index has raised the
\* addressed process's memory_accesses by one and changed no row, no fault
\* counter and no free-list content.
C13_InvalidAccessCounted ==
    [][ (pc = "running" /\ pc' = "exited_page") =>
          /\ ~is_valid_page(virtual_address'.process_id,
                            virtual_address'.page)
          /\ memory_accesses' =
               [memory_accesses EXCEPT ![virtual_address'.process_id] = @ + 1]
          /\ UNCHANGED << rows, page_faults, process_page_faults,
                          free_frames >>
      ]_vars

\* C13 witness: a run that exited on an invalid page index of a process
\* whose counter then exceeds its faults and hits by that one access.
C13_Witness ==
    /\ pc = "exited_page"
    /\ memory_accesses[virtual_address.process_id] >= 2
    /\ TotalAccesses = time + 1

\* C14: a hit sets last_accessed_at of the hit row to the clock and changes
\* nothing else but the process's access counter.
C14_HitOnlyTouchesRecency ==
    [][ HitTaken =>
          LET p == virtual_address'.process_id
              page == virtual_address'.page
          IN /\ rows' = [rows EXCEPT ![p][page].last_accessed_at = time]
             /\ memory_accesses' = [memory_accesses EXCEPT ![p] = @ + 1]
             /\ UNCHANGED << page_faults, process_page_faults, free_frames,
                             frames, flags >>
      ]_vars

\* C14 witness: a hit has moved last_accessed_at of a row past its
\* loaded_at while another row of the same process is resident.
C14_Witness ==
    /\ branch = "hit"
    /\ pc = "running"
    /\ LET row == rows[virtual_address.process_id][virtual_address.page]
       IN row.last_accessed_at = time - 1 /\ row.loaded_at < time - 1
    /\ Cardinality(Resident(virtual_address.process_id)) = 2

\* C15: every miss raises the process's and the global fault counter by
\* exactly one each and, when handle_page_fault returns, leaves the faulting
\* row present with loaded_at = last_accessed_at = the clock of the access.
C15_MissCountsAndLoads ==
    [][ MissTaken =>
          LET p == virtual_address'.process_id
              page == virtual_address'.page
          IN /\ page_faults' = page_faults + 1
             /\ process_page_faults' =
                  [process_page_faults EXCEPT ![p] = @ + 1]
             /\ pc' # "crashed" =>
                  /\ rows'[p][page].present
                  /\ rows'[p][page].loaded_at = time
                  /\ rows'[p][page].last_accessed_at = time
      ]_vars

\* C15 witness: an eviction fault of a process that had faulted before,
\* after the other process had faulted as well.
C15_Witness ==
    /\ branch = "evict"
    /\ process_page_faults[virtual_address.process_id] >= 2
    /\ page_faults > process_page_faults[virtual_address.process_id]
    /\ rows[virtual_address.process_id][virtual_address.page].present

\* The step is a miss of a process that holds max_frames present rows.
EvictionFaultTaken ==
    /\ MissTaken
    /\ get_rss(virtual_address'.process_id) = flags.max_frames

C17_ClockTicksOncePerAccess ==
    [][ /\ time' >= time
        /\ ~AccessTaken => time' = time
        /\ AccessTaken =>
             /\ time = TotalAccesses
             /\ TotalAccesses' = TotalAccesses + 1
             /\ pc' = "running" => time' = time + 1 /\ time' = TotalAccesses'
             /\ pc' # "running" => time' = time
             /\ (pc' \in {"running", "exited_offset"}) =>
                  rows'[virtual_address'.process_id]
                       [virtual_address'.page].last_accessed_at = time
      ]_vars

\* C17 witness: three entries of both processes have been processed and the
\* row of the last one carries the stamp 2.
C17_Witness ==
    /\ pc = "running"
    /\ time = 3
    /\ memory_accesses[1] >= 1 /\ memory_accesses[2] >= 1
    /\ rows[virtual_address.process_id][virtual_address.page]
           .last_accessed_at = 2

\* C19: any two distinct present rows, of one process or of two, differ in
\* loaded_at and in last_accessed_at.
C19_StampsDistinct ==
    \A a \in ResidentPairs : \A b \in ResidentPairs :
        a # b =>
          /\ rows[a[1]][a[2]].loaded_at # rows[b[1]][b[2]].loaded_at
          /\ rows[a[1]][a[2]].last_accessed_at
               # rows[b[1]][b[2]].last_accessed_at

\* C19 witness: two present rows in one process and a present row in the
\* other, after an eviction.
C19_Witness ==
    /\ Cardinality(Resident(1)) = 2
    /\ Resident(2) # {}
    /\ branch = "evict"

\* Pages of process p accessed so far: a processed access stamps the row.
Accessed(p) == { i \in DOMAIN rows[p] : rows[p][i].last_accessed_at >= 0 }

Min(a, b) == IF a <= b THEN a ELSE b

\* C20: between entries and in the summary, every process's resident count
\* is min(distinct pages accessed, max_frames) and the free-frame count is
\* NUM_FRAMES minus the sum of the resident counts.
C20_ResidentAndFreeCounts ==
    pc \in {"running", "done"} =>
        /\ \A p \in Procs :
              get_rss(p) = Min(Cardinality(Accessed(p)), flags.max_frames)
        /\ Len(free_frames) = NUM_FRAMES - TotalPresent

\* The constructor stores whatever flags it is given: max_frames is an int
\* that handle_page_fault compares with get_rss() and nothing in the
\* simulation rejects the value 0.
InitAnyFrames ==
    /\ pc = "constructed"
    /\ flags \in [max_frames : 0..MaxFramesFlag, strategy : Strategies,
                  verbose : BOOLEAN]
    /\ rows = [p \in Procs |-> [i \in PageIndexes(p) |-> NewRow]]
    /\ memory_accesses = [p \in Procs |-> 0]
    /\ process_page_faults = [p \in Procs |-> 0]
    /\ page_faults = 0
    /\ time = 0
    /\ free_frames = << >>
    /\ frames = 0
    /\ virtual_address = NoAddress
    /\ branch = "none"
    /\ page_index = -1

SpecAnyFrames == InitAnyFrames /\ [][Next]_vars

\* C18: a victim scan runs only on a table whose resident count equals
\* max_frames and is at least one, so the row it returns was present and the
\* frame read from it is the frame of a resident page.
C18_VictimScanOnFullTable ==
    [][ EvictionTaken =>
          LET p == virtual_address'.process_id
          IN /\ get_rss(p) = flags.max_frames
             /\ get_rss(p) >= 1
             /\ page_index' \in Resident(p)
      ]_vars

\* The state in which run() reaches print_summary after a trace of process
\* 1 alone: its two counters are drawn from the counts a run can end with
\* (the first access of a process always faults), process 2 has none.
\* get_fault_percent reads nothing but these counters.
InitPercent ==
    /\ pc = "running"
    /\ flags = [max_frames |-> MaxFramesFlag, strategy |-> "FIFO",
                verbose |-> FALSE]
    /\ rows = [p \in Procs |-> [i \in PageIndexes(p) |-> NewRow]]
    /\ memory_accesses \in { [p \in Procs |-> IF p = 1 THEN n ELSE 0] :
                               n \in 0..MaxCount }
    /\ process_page_faults \in
          { [p \in Procs |-> IF p = 1 THEN f ELSE 0] : f \in 0..MaxCount }
    /\ process_page_faults[1] <= memory_accesses[1]
    /\ process_page_faults[1] = 0 <=> memory_accesses[1] = 0
    /\ page_faults = process_page_faults[1]
    /\ time = memory_accesses[1]
    /\ free_frames = InitialFreeFrames
    /\ frames = page_faults
    /\ virtual_address = NoAddress
    /\ branch = "none"
    /\ page_index = -1

SpecPercent == InitPercent /\ [][Finish]_vars

\* 100 * page_faults / memory_accesses of process p as a double, and
\* whether that double is the quotient itself.
ExactPercent(p) == Quotient(100 * process_page_faults[p], memory_accesses[p])

\* x and y are the same double or neighbours.
WithinOneUlp(x, y) == x = y \/ NextUp(x) = y \/ NextUp(y) = x

IsPowerOfTwo(n) == n = Pow2(BitLength(n) - 1)

\* C12 as stated: the reported fault percentage is 0 without accesses and
\* otherwise is 100 * page_faults / memory_accesses exactly.
C12_FaultPercentExact ==
    pc = "done" =>
        \A p \in Procs :
            IF memory_accesses[p] = 0 THEN get_fault_percent(p) = Zero
            ELSE /\ ExactPercent(p).exact
                 /\ get_fault_percent(p) = ExactPercent(p).value

\* C12 amended: the reported fault percentage is 0 without accesses;
\* otherwise it is the twice-rounded double product, which is the double
\* nearest to 100 * page_faults / memory_accesses or a neighbour of it; it
\* is that quotient exactly when every access faulted or the access count
\* is a power of two, and for 1 fault in 3 accesses it is the double just
\* below the nearest one.
C12_FaultPercentRounded ==
    pc = "done" =>
        \A p \in Procs :
            IF memory_accesses[p] = 0 THEN get_fault_percent(p) = Zero
            ELSE /\ WithinOneUlp(get_fault_percent(p), ExactPercent(p).value)
                 /\ ( \/ process_page_faults[p] = memory_accesses[p]
                      \/ IsPowerOfTwo(memory_accesses[p]) )
                      => /\ ExactPercent(p).exact
                         /\ get_fault_percent(p) = ExactPercent(p).value
                 /\ (process_page_faults[p] = 1 /\ memory_accesses[p] = 3)
                      => NextUp(get_fault_percent(p)) = ExactPercent(p).value

\* C12 witness: the summary of a run in which process 1 faulted once in
\* three accesses and process 2 was never accessed; the reported value is
\* not the double nearest to 100/3.
C12_Witness ==
    /\ pc = "done"
    /\ process_page_faults[1] = 1 /\ memory_accesses[1] = 3
    /\ memory_accesses[2] = 0
    /\ get_fault_percent(2) = Zero
    /\ get_fault_percent(1) # ExactPercent(1).value

====
